---- MODULE Spec2Model ----
(***************************************************************************)
(* Model of python-service/main.py: an asyncio TCP server that keeps three *)
(* aggregates (req_total, req_sum, sharded set of user ids) and answers    *)
(* GET /stats and POST /event over a hand-rolled HTTP decoder.             *)
(*                                                                         *)
(* Bytes are abstracted to tokens: one token is one unit of length.  A     *)
(* request is the token stream a client sends; the transport may hand any  *)
(* non-empty prefix of what is still unread to a read() call.  What a      *)
(* client sends is decided when it is read: a read sees a prefix of some   *)
(* request, a later read a prefix of what continues it to a request.       *)
(* Handlers are asyncio tasks: one runs at a time and gives up the loop    *)
(* only at an await that suspends (running = {} means the loop is idle).   *)
(***************************************************************************)
EXTENDS Integers, Sequences, FiniteSets, TLC

VARIABLES conn, running, req_total, req_sum, shards, locks, hashseed,
          accepted, okWrites, okUsers, exactSum, overlap, menu

vars == <<conn, running, req_total, req_sum, shards, locks, hashseed,
          accepted, okWrites, okUsers, exactSum, overlap, menu>>

\* ------------------------------------------------------------- bounds
\* connection slots that can be open at the same time
NumConns == 2
\* connections accepted over a whole run (slots are reused)
MaxAccepts == 3

Conns == 1..NumConns

\* --------------------------------------------------- program constants
NUM_SHARDS == 1024
READ_CAP == 2048
\* Value("i", 0): a C int
INT_MAX == 2147483647
\* Value("f", 0): a C float, 24 bits of significand
F32_MANT == 16777216

Min(S) == CHOOSE x \in S : \A y \in S : x <= y
Max(S) == CHOOSE x \in S : \A y \in S : x >= y

\* ------------------------------------------------------------- tokens
Tok(k, s, n) == [k |-> k, s |-> s, n |-> n]
Line(s) == Tok("line", s, 0)
CLen(n) == Tok("clen", "", n)
SEP == Tok("sep", "", 0)
LB == Tok("{", "", 0)
RB == Tok("}", "", 0)
Uid(s) == Tok("userId", s, 0)
UidNum(n) == Tok("userIdNum", "", n)
UidList == Tok("userIdList", "", 0)
Val(n) == Tok("value", "", n)
ValStr(s) == Tok("valueStr", s, 0)
Num(n) == Tok("num", "", n)
NoTok == Tok("none", "", 0)

GET_STATS == "GET /stats "
POST_EVENT == "POST /event "

\* ----------------------------------------------------------- requests
ReqStats == <<Line(GET_STATS), SEP>>
ReqOther == <<Line("GET /other "), SEP>>
ReqEvent(u, v) == <<Line(POST_EVENT), CLen(4), SEP, LB, Uid(u), Val(v), RB>>
ReqBadValue(u) == <<Line(POST_EVENT), CLen(4), SEP, LB, Uid(u), ValStr("abc"), RB>>
ReqNothing == <<>>
ReqTruncated(u) == <<Line(POST_EVENT), CLen(4), SEP, LB, Uid(u)>>

\* a value that a C float cannot hold exactly: 2^24 + 1
BigValue == F32_MANT + 1

Requests ==
    { ReqNothing, ReqStats, ReqOther, ReqBadValue("alice"), ReqTruncated("bob"),
      ReqEvent("alice", 10), ReqEvent("alice", 5), ReqEvent("bob", 1),
      ReqEvent("bob", BigValue) }

\* bodies that are JSON but not an event: a bare number, no userId, a
\* number or a list for userId, a string for value
ReqScalar == <<Line(POST_EVENT), CLen(1), SEP, Num(5)>>
ReqNoUser(v) == <<Line(POST_EVENT), CLen(3), SEP, LB, Val(v), RB>>
ReqNumUser(n, v) == <<Line(POST_EVENT), CLen(4), SEP, LB, UidNum(n), Val(v), RB>>
ReqListUser(v) == <<Line(POST_EVENT), CLen(4), SEP, LB, UidList, Val(v), RB>>
ReqStrValue(u, s) == <<Line(POST_EVENT), CLen(4), SEP, LB, Uid(u), ValStr(s), RB>>

\* an event whose userId is the text of the other route's marker
ReqEventNamedStats == ReqEvent(GET_STATS, 1)

UnusualRequests ==
    { ReqStats, ReqScalar, ReqNoUser(3), ReqNumUser(7, 1), ReqListUser(1),
      ReqStrValue("bob", "5"), ReqEventNamedStats }

\* clients that meet at one shard: a write of alice, a write of alice that
\* fails after its add, and a reader
GuardRequests == { ReqStats, ReqBadValue("alice"), ReqEvent("alice", 10) }

\* a client that repeats one event of value 0
WrapRequests == { ReqStats, ReqEvent("alice", 0) }

\* ----------------------------------------------------- pure functions
\* `marker in data_bin`
HasMarker(d, m) == \E j \in 1..Len(d) : d[j].s = m

\* a final `else` that takes every other request for an event
RouteNoElif(d) == IF HasMarker(d, GET_STATS) THEN "stats" ELSE "event"

RouteGetFirst(d) ==
    IF HasMarker(d, GET_STATS) THEN "stats"
    ELSE IF HasMarker(d, POST_EVENT) THEN "event"
    ELSE "unknown"

\* data_bin.split(b"\r\n\r\n"), unpacked into exactly two parts
SepIdx(d) == {j \in 1..Len(d) : d[j] = SEP}
SplitOK(d) == Cardinality(SepIdx(d)) = 1
BodyOf(d) == SubSeq(d, Min(SepIdx(d)) + 1, Len(d))

\* REQ_RE_LEN.search(data_bin): the first Content-Length line, else 0
ClenIdx(d) == {j \in 1..Len(d) : d[j].k = "clen"}
ContentLength(d) == IF ClenIdx(d) = {} THEN 0 ELSE d[Min(ClenIdx(d))].n

\* what a client that has sent `sent` goes on to send
Continuations(sent) ==
    {SubSeq(r, Len(sent) + 1, Len(r)) :
        r \in {q \in menu : Len(q) >= Len(sent) /\ SubSeq(q, 1, Len(sent)) = sent}}

\* reader.read(n): sizes a read can return; 0 is end-of-stream
ReadSizes(n, stream) ==
    IF Len(stream) = 0 THEN {0}
    ELSE 1..(IF n < Len(stream) THEN n ELSE Len(stream))

\* orjson.loads
LastOf(b, ks) ==
    LET J == {j \in 1..Len(b) : b[j].k \in ks}
    IN  IF J = {} THEN NoTok ELSE b[Max(J)]
NoBody == [ok |-> FALSE, dict |-> FALSE, userId |-> NoTok, value |-> NoTok]
Loads(b) ==
    IF /\ Len(b) >= 2
       /\ b[1] = LB
       /\ b[Len(b)] = RB
       /\ \A j \in 2..(Len(b) - 1) :
            b[j].k \in {"userId", "userIdNum", "userIdList", "value", "valueStr"}
    THEN [ok |-> TRUE, dict |-> TRUE,
          userId |-> LastOf(b, {"userId", "userIdNum", "userIdList"}),
          value |-> LastOf(b, {"value", "valueStr"})]
    ELSE IF Len(b) = 1 /\ b[1].k = "num"
    THEN [ok |-> TRUE, dict |-> FALSE, userId |-> NoTok, value |-> NoTok]
    ELSE NoBody

\* body.get("userId"): the Python value, None when the key is absent
NoUser == Tok("None", "", 0)
PyUser(t) ==
    CASE t.k = "userId" -> Tok("str", t.s, 0)
      [] t.k = "userIdNum" -> Tok("int", "", t.n)
      [] t.k = "userIdList" -> Tok("list", "", 0)
      [] OTHER -> NoUser

\* hash(): str hashes depend on the per-process seed
StrHash(seed, s) ==
    IF seed = 1
    THEN (CASE s = "alice" -> 5 [] s = "bob" -> 1029 [] OTHER -> 77)
    ELSE (CASE s = "alice" -> -3 [] s = "bob" -> 2048 [] OTHER -> -78)
Hash(seed, v) ==
    CASE v.k = "str" -> StrHash(seed, v.s)
      [] v.k = "int" -> v.n
      [] OTHER -> 3081
HashSeeds == {1, 2}

\* an index that depends on when it is computed
shard_index_salted(user_id) == (Hash(hashseed, user_id) + req_total) % NUM_SHARDS

shard_index(user_id) == Hash(hashseed, user_id) % NUM_SHARDS

\* sum(len(s) for s in shards); shards holds the pairs <<index, member>>
\* of the non-empty sets, an empty set adds 0
RECURSIVE SumLen(_)
SumLen(I) ==
    IF I = {} THEN 0
    ELSE LET i == Min(I)
         IN  Cardinality({p \in shards : p[1] = i}) + SumLen(I \ {i})
unique_count == SumLen({p[1] : p \in shards})

\* float(body.get("value", 0))
NumStr(s) == CASE s = "5" -> 5 [] OTHER -> -1
FloatOf(t) ==
    CASE t = NoTok -> [ok |-> TRUE, v |-> 0]
      [] t.k = "value" -> [ok |-> TRUE, v |-> t.n]
      [] t.k = "valueStr" /\ NumStr(t.s) >= 0 -> [ok |-> TRUE, v |-> NumStr(t.s)]
      [] OTHER -> [ok |-> FALSE, v |-> 0]

\* storing a double into a C float: round to 24 significant bits, ties to even
RECURSIVE Ulp(_)
Ulp(x) == IF x < F32_MANT THEN 1 ELSE 2 * Ulp(x \div 2)
F32Abs(x) ==
    LET u == Ulp(x)
        q == x \div u
        r == x % u
    IN  IF 2 * r < u THEN q * u
        ELSE IF 2 * r > u THEN (q + 1) * u
        ELSE IF q % 2 = 0 THEN q * u ELSE (q + 1) * u
F32(x) == IF x < 0 THEN 0 - F32Abs(0 - x) ELSE F32Abs(x)

\* storing into a C int wraps
Int32Inc(x) == IF x = INT_MAX THEN (0 - INT_MAX) - 1 ELSE x + 1

\* a / b as a fraction in lowest terms, denominator positive
RECURSIVE GCD(_, _)
GCD(a, b) == IF b = 0 THEN a ELSE GCD(b, a % b)
Abs(x) == IF x < 0 THEN 0 - x ELSE x
Zero == <<0, 1>>
Quot(a, b) ==
    IF a = 0 /\ b # 0 THEN Zero
    ELSE LET g == GCD(Abs(a), Abs(b))
             s == IF b < 0 THEN 0 - 1 ELSE 1
         IN  <<(s * a) \div g, (s * b) \div g>>

\* ---------------------------------------------------------- responses
NoResponse == [status |-> 0, text |-> "", totalRequests |-> 0,
               uniqueUsers |-> 0, sum |-> 0, avg |-> Zero]
HTTP_404 == [status |-> 404, text |-> "Not Found", totalRequests |-> 0,
             uniqueUsers |-> 0, sum |-> 0, avg |-> Zero]
HTTP_500 == [status |-> 500, text |-> "Internal Server Error", totalRequests |-> 0,
             uniqueUsers |-> 0, sum |-> 0, avg |-> Zero]
HTTP_200(avg) == [status |-> 200, text |-> "", totalRequests |-> req_total,
                  uniqueUsers |-> unique_count, sum |-> req_sum, avg |-> avg]

\* the operands of the division swapped
EventAvgSwapped == Quot(req_total, req_sum)

StatsAvg == IF req_total # 0 THEN Quot(req_sum, req_total) ELSE Zero
EventAvgOK == req_total # 0
EventAvg == Quot(req_sum, req_total)

\* -------------------------------------------------------------- state
NewConn == [pc |-> "idle", req |-> <<>>, data_bin |-> <<>>,
            body_sofar |-> <<>>, content_length |-> 0, body |-> NoBody,
            user_id |-> NoUser, i |-> 0, tmp |-> 0, sum0 |-> 0,
            response |-> NoResponse,
            written |-> 0, flushed |-> FALSE,
            eof |-> FALSE, readErr |-> FALSE, dirty |-> {}]

Init ==
    /\ conn = [c \in Conns |-> NewConn]
    /\ running = {}
    /\ req_total = 0
    /\ req_sum = 0
    /\ shards = {}
    /\ locks = {}
    /\ hashseed \in HashSeeds
    /\ accepted = 0
    /\ okWrites = 0
    /\ okUsers = {}
    /\ exactSum = 0
    /\ overlap = FALSE
    /\ menu = Requests

\* the same server, with clients that send JSON bodies of other shapes
InitUnusual ==
    /\ conn = [c \in Conns |-> NewConn]
    /\ running = {}
    /\ req_total = 0
    /\ req_sum = 0
    /\ shards = {}
    /\ locks = {}
    /\ hashseed \in HashSeeds
    /\ accepted = 0
    /\ okWrites = 0
    /\ okUsers = {}
    /\ exactSum = 0
    /\ overlap = FALSE
    /\ menu = UnusualRequests

\* the server after INT_MAX - 1 events of alice with value 0 have been
\* applied; writes and users are counted from here on
InitWrap ==
    /\ conn = [c \in Conns |-> NewConn]
    /\ running = {}
    /\ req_total = INT_MAX - 1
    /\ req_sum = 0
    /\ hashseed \in HashSeeds
    /\ shards = {<<shard_index(Tok("str", "alice", 0)), Tok("str", "alice", 0)>>}
    /\ locks = {}
    /\ accepted = 0
    /\ okWrites = 0
    /\ okUsers = {}
    /\ exactSum = 0
    /\ overlap = FALSE
    /\ menu = WrapRequests

\* the server as constructed, with the clients that meet at one shard
InitGuard ==
    /\ conn = [c \in Conns |-> NewConn]
    /\ running = {}
    /\ req_total = 0
    /\ req_sum = 0
    /\ shards = {}
    /\ locks = {}
    /\ hashseed \in HashSeeds
    /\ accepted = 0
    /\ okWrites = 0
    /\ okUsers = {}
    /\ exactSum = 0
    /\ overlap = FALSE
    /\ menu = GuardRequests

Active(c) == conn[c].pc # "idle"

\* the event loop runs one task at a time: a task steps when the loop is
\* idle (it resumes from an await) or when it is the task running
CanRun(c) == running \subseteq {c}

\* an await that suspends between the load and the store of req_total
SuspendsInIncrement(p) == p \in {"idle", "L52", "L77", "L105", "L82s"}

\* an await that suspends inside the critical section of add_unique_user
SuspendsInCriticalSection(p) == p \in {"idle", "L52", "L77", "L105", "L39"}

\* an await that suspends between the store of req_sum and the count
SuspendsBetweenCounters(p) == p \in {"idle", "L52", "L77", "L105", "L82"}

\* where a task gives up the loop: the awaits on the socket (lines 52, 77,
\* 103-106) and the end of handle(); everything between runs without a break
Suspends(p) == p \in {"idle", "L52", "L77", "L105"}

\* the request counted before its value is converted
FlowCountFirst(p) ==
    CASE p = "L39" -> "L82" [] p = "L82s" -> "L81" [] p = "L81s" -> "L84"

\* lines 80-84 in order: add the user, add to the sum, count, respond
Flow(p) ==
    CASE p = "L39" -> "L81" [] p = "L81s" -> "L82" [] p = "L82s" -> "L84"

\* the task the loop runs after handler c has stepped to p
Loop(c, p) == IF Suspends(p) THEN {} ELSE {c}

aggregate == <<req_total, req_sum, shards>>
ghosts == <<okWrites, okUsers, exactSum, overlap, menu>>

\* ------------------------------------------------------------ actions
\* asyncio.start_server: one handle() task per accepted connection; the
\* new socket takes the lowest free descriptor
Accept(c) ==
    /\ running = {}
    /\ ~Active(c)
    /\ \A d \in Conns : d < c => Active(d)
    /\ accepted < MaxAccepts
    /\ conn' = [conn EXCEPT ![c].pc = "L52"]
    /\ accepted' = accepted + 1
    /\ overlap' = (overlap \/ \E d \in Conns \ {c} : Active(d))
    /\ UNCHANGED <<running, aggregate, locks, hashseed, okWrites, okUsers, exactSum, menu>>

\* line 52: data_bin = await reader.read(2048); a failure goes to line 98
ReadFirst(c) ==
    /\ conn[c].pc = "L52"
    /\ CanRun(c)
    /\ \/ \E net \in Continuations(<<>>) : \E k \in ReadSizes(READ_CAP, net) :
            conn' = [conn EXCEPT ![c].data_bin = SubSeq(net, 1, k),
                                 ![c].eof = (k = 0),
                                 ![c].pc = "L55"]
       \/ conn' = [conn EXCEPT ![c].readErr = TRUE,
                               ![c].response = HTTP_500,
                               ![c].pc = "L102"]
    /\ running' = Loop(c, conn'[c].pc)
    /\ UNCHANGED <<aggregate, locks, hashseed, accepted, ghosts>>

\* lines 55, 65, 95-96: the route
Classify(c) ==
    /\ conn[c].pc = "L55"
    /\ CanRun(c)
    /\ LET route == RouteGetFirst(conn[c].data_bin)
       IN  conn' = IF route = "stats" THEN [conn EXCEPT ![c].pc = "L56"]
                   ELSE IF route = "event" THEN [conn EXCEPT ![c].pc = "L68"]
                   ELSE [conn EXCEPT ![c].response = HTTP_404, ![c].pc = "L102"]
    /\ running' = Loop(c, conn'[c].pc)
    /\ UNCHANGED <<aggregate, locks, hashseed, accepted, ghosts>>

\* a stats request that is counted as a request
StatsCounted(c) ==
    /\ conn[c].pc = "L56"
    /\ CanRun(c)
    /\ req_total' = Int32Inc(req_total)
    /\ conn' = [conn EXCEPT ![c].response = HTTP_200(StatsAvg), ![c].pc = "L102"]
    /\ running' = Loop(c, conn'[c].pc)
    /\ UNCHANGED <<req_sum, shards, locks, hashseed, accepted, ghosts>>

\* lines 56-62: the stats response
Stats(c) ==
    /\ conn[c].pc = "L56"
    /\ CanRun(c)
    /\ conn' = [conn EXCEPT ![c].response = HTTP_200(StatsAvg), ![c].pc = "L102"]
    /\ running' = Loop(c, conn'[c].pc)
    /\ UNCHANGED <<aggregate, locks, hashseed, accepted, ghosts>>

\* lines 68-76: split, Content-Length, remaining
ParseEvent(c) ==
    /\ conn[c].pc = "L68"
    /\ CanRun(c)
    /\ LET d == conn[c].data_bin
           content_length == ContentLength(d)
           remaining == content_length - Len(BodyOf(d))
       IN  conn' = IF ~SplitOK(d)
                   THEN [conn EXCEPT ![c].response = HTTP_500, ![c].pc = "L102"]
                   ELSE [conn EXCEPT ![c].body_sofar = BodyOf(d),
                                     ![c].content_length = content_length,
                                     ![c].pc = IF remaining > 0 THEN "L77" ELSE "L79"]
    /\ running' = Loop(c, conn'[c].pc)
    /\ UNCHANGED <<aggregate, locks, hashseed, accepted, ghosts>>

\* line 77: body_sofar += await reader.read(remaining), one read
ReadRest(c) ==
    /\ conn[c].pc = "L77"
    /\ CanRun(c)
    /\ LET remaining == conn[c].content_length - Len(conn[c].body_sofar)
       IN  \/ \E net \in Continuations(conn[c].data_bin) : \E k \in ReadSizes(remaining, net) :
                conn' = [conn EXCEPT ![c].body_sofar = conn[c].body_sofar \o SubSeq(net, 1, k),
                                     ![c].req = conn[c].data_bin \o net,
                                     ![c].eof = (k = 0),
                                     ![c].pc = "L79"]
           \/ conn' = [conn EXCEPT ![c].readErr = TRUE,
                                   ![c].response = HTTP_500,
                                   ![c].pc = "L102"]
    /\ running' = Loop(c, conn'[c].pc)
    /\ UNCHANGED <<aggregate, locks, hashseed, accepted, ghosts>>

\* line 79: body = orjson.loads(body_sofar.decode())
Decode(c) ==
    /\ conn[c].pc = "L79"
    /\ CanRun(c)
    /\ LET body == Loads(conn[c].body_sofar)
       IN  conn' = IF body.ok
                   THEN [conn EXCEPT ![c].body = body, ![c].pc = "L80"]
                   ELSE [conn EXCEPT ![c].response = HTTP_500, ![c].pc = "L102"]
    /\ running' = Loop(c, conn'[c].pc)
    /\ UNCHANGED <<aggregate, locks, hashseed, accepted, ghosts>>

\* line 80 and line 37: body.get("userId"), i = shard_index(user_id)
GetUser(c) ==
    /\ conn[c].pc = "L80"
    /\ CanRun(c)
    /\ LET user_id == PyUser(conn[c].body.userId)
       IN  conn' = IF conn[c].body.dict /\ user_id.k # "list"
                   THEN [conn EXCEPT ![c].user_id = user_id,
                                     ![c].i = shard_index(user_id),
                                     ![c].pc = "L38"]
                   ELSE [conn EXCEPT ![c].response = HTTP_500, ![c].pc = "L102"]
    /\ running' = Loop(c, conn'[c].pc)
    /\ UNCHANGED <<aggregate, locks, hashseed, accepted, ghosts>>

\* line 38: async with locks[i] -- taken at once when free, else the task waits
Acquire(c) ==
    /\ conn[c].pc = "L38"
    /\ CanRun(c)
    /\ IF conn[c].i \in locks
       THEN /\ running' = {}
            /\ UNCHANGED <<conn, locks>>
       ELSE /\ locks' = locks \cup {conn[c].i}
            /\ conn' = [conn EXCEPT ![c].pc = "L39"]
            /\ running' = Loop(c, "L39")
    /\ UNCHANGED <<aggregate, hashseed, accepted, ghosts>>

\* the add without the release of `async with`
AddUserKeepsGuard(c) ==
    /\ conn[c].pc = "L39"
    /\ CanRun(c)
    /\ shards' = shards \cup {<<conn[c].i, conn[c].user_id>>}
    /\ conn' = [conn EXCEPT ![c].pc = Flow("L39"),
                            ![c].dirty = IF shards' # shards THEN @ \cup {"shards"} ELSE @]
    /\ running' = Loop(c, conn'[c].pc)
    /\ UNCHANGED <<req_total, req_sum, locks, hashseed, accepted, ghosts>>

\* line 39: shards[i].add(user_id), then the guard is released
AddUser(c) ==
    /\ conn[c].pc = "L39"
    /\ CanRun(c)
    /\ shards' = shards \cup {<<conn[c].i, conn[c].user_id>>}
    /\ locks' = locks \ {conn[c].i}
    /\ conn' = [conn EXCEPT ![c].pc = Flow("L39"),
                            ![c].dirty = IF shards' # shards THEN @ \cup {"shards"} ELSE @]
    /\ running' = Loop(c, conn'[c].pc)
    /\ UNCHANGED <<req_total, req_sum, hashseed, accepted, ghosts>>

\* line 81: req_sum.value += float(body.get("value", 0)) -- the load
SumLoad(c) ==
    /\ conn[c].pc = "L81"
    /\ CanRun(c)
    /\ conn' = [conn EXCEPT ![c].tmp = req_sum, ![c].sum0 = req_sum, ![c].pc = "L81s"]
    /\ running' = Loop(c, conn'[c].pc)
    /\ UNCHANGED <<aggregate, locks, hashseed, accepted, ghosts>>

\* line 81: float(), the addition and the store into the C float
SumStore(c) ==
    /\ conn[c].pc = "L81s"
    /\ CanRun(c)
    /\ LET f == FloatOf(conn[c].body.value)
       IN  IF f.ok
           THEN /\ req_sum' = F32(conn[c].tmp + f.v)
                /\ conn' = [conn EXCEPT ![c].pc = Flow("L81s"),
                                        ![c].dirty = IF req_sum' # req_sum THEN @ \cup {"sum"} ELSE @]
           ELSE /\ conn' = [conn EXCEPT ![c].response = HTTP_500, ![c].pc = "L102"]
                /\ UNCHANGED req_sum
    /\ running' = Loop(c, conn'[c].pc)
    /\ UNCHANGED <<req_total, shards, locks, hashseed, accepted, ghosts>>

\* line 82: req_total.value += 1 -- the load
TotalLoad(c) ==
    /\ conn[c].pc = "L82"
    /\ CanRun(c)
    /\ conn' = [conn EXCEPT ![c].tmp = req_total, ![c].pc = "L82s"]
    /\ running' = Loop(c, conn'[c].pc)
    /\ UNCHANGED <<aggregate, locks, hashseed, accepted, ghosts>>

\* line 82: the store into the C int
TotalStore(c) ==
    /\ conn[c].pc = "L82s"
    /\ CanRun(c)
    /\ req_total' = Int32Inc(conn[c].tmp)
    /\ conn' = [conn EXCEPT ![c].pc = Flow("L82s"), ![c].dirty = @ \cup {"total"}]
    /\ running' = Loop(c, conn'[c].pc)
    /\ UNCHANGED <<req_sum, shards, locks, hashseed, accepted, ghosts>>

\* lines 84-90: the event response; the division raises on a zero total
Respond(c) ==
    /\ conn[c].pc = "L84"
    /\ CanRun(c)
    /\ IF EventAvgOK
       THEN /\ conn' = [conn EXCEPT ![c].response = HTTP_200(EventAvg), ![c].pc = "L102"]
            /\ okWrites' = okWrites + 1
            /\ okUsers' = okUsers \cup {conn[c].user_id}
            /\ exactSum' = exactSum + FloatOf(conn[c].body.value).v
       ELSE /\ conn' = [conn EXCEPT ![c].response = HTTP_500, ![c].pc = "L102"]
            /\ UNCHANGED <<okWrites, okUsers, exactSum>>
    /\ running' = Loop(c, conn'[c].pc)
    /\ UNCHANGED <<aggregate, locks, hashseed, accepted, overlap, menu>>

\* line 102: writer.write(response)
Write(c) ==
    /\ conn[c].pc = "L102"
    /\ CanRun(c)
    /\ conn' = [conn EXCEPT ![c].written = @ + 1, ![c].pc = "L103"]
    /\ running' = Loop(c, conn'[c].pc)
    /\ UNCHANGED <<aggregate, locks, hashseed, accepted, ghosts>>

\* line 103: await writer.drain(); when it raises, handle() ends there.
\* The locals are dead from here on and are dropped.
Drain(c) ==
    /\ conn[c].pc = "L103"
    /\ CanRun(c)
    /\ \/ conn' = [conn EXCEPT ![c] = [NewConn EXCEPT !.pc = "L105",
                                                     !.written = conn[c].written,
                                                     !.flushed = TRUE]]
       \/ conn' = [conn EXCEPT ![c] = NewConn]
    /\ running' = Loop(c, conn'[c].pc)
    /\ UNCHANGED <<aggregate, locks, hashseed, accepted, ghosts>>

\* lines 104-108: writer.close(); await writer.wait_closed(), errors ignored;
\* handle() returns and the slot is free again
Close(c) ==
    /\ conn[c].pc = "L105"
    /\ CanRun(c)
    /\ conn' = [conn EXCEPT ![c] = NewConn]
    /\ running' = Loop(c, conn'[c].pc)
    /\ UNCHANGED <<aggregate, locks, hashseed, accepted, ghosts>>

Next ==
    \/ \E c \in Conns : Accept(c)
    \/ \E c \in Conns : ReadFirst(c)
    \/ \E c \in Conns : Classify(c)
    \/ \E c \in Conns : Stats(c)
    \/ \E c \in Conns : ParseEvent(c)
    \/ \E c \in Conns : ReadRest(c)
    \/ \E c \in Conns : Decode(c)
    \/ \E c \in Conns : GetUser(c)
    \/ \E c \in Conns : Acquire(c)
    \/ \E c \in Conns : AddUser(c)
    \/ \E c \in Conns : SumLoad(c)
    \/ \E c \in Conns : SumStore(c)
    \/ \E c \in Conns : TotalLoad(c)
    \/ \E c \in Conns : TotalStore(c)
    \/ \E c \in Conns : Respond(c)
    \/ \E c \in Conns : Write(c)
    \/ \E c \in Conns : Drain(c)
    \/ \E c \in Conns : Close(c)

Spec == Init /\ [][Next]_vars

SpecUnusual == InitUnusual /\ [][Next]_vars

SpecWrap == InitWrap /\ [][Next]_vars

\* the event loop runs every task that is ready: a handler at the guard or
\* inside the critical section waits for no socket and is run on
SpecFair ==
    /\ InitGuard
    /\ [][Next]_vars
    /\ \A c \in Conns : WF_vars(Acquire(c)) /\ WF_vars(AddUser(c))

\* ------------------------------------------------------------- claims
Final == \A c \in Conns : ~Active(c)
Chosen(c) == conn[c].pc = "L102"
IsEvent(c) == ~HasMarker(conn[c].data_bin, GET_STATS) /\ HasMarker(conn[c].data_bin, POST_EVENT)
IsStats(c) == HasMarker(conn[c].data_bin, GET_STATS)
NoMarker(c) == ~HasMarker(conn[c].data_bin, GET_STATS) /\ ~HasMarker(conn[c].data_bin, POST_EVENT)

\* C1: no lost updates -- when every handler has finished, whatever the
\* interleaving at the awaits was, totalRequests equals the number of
\* events that were decoded and applied.
C1_NoLostUpdates == Final => req_total = okWrites

\* two writers were open at the same time and both were applied
C1_Witness == Final /\ overlap /\ accepted = 2 /\ okWrites = 2

\* the write of handler c, now at the add, will be answered 200
WillSucceed(c) == FloatOf(conn[c].body.value).ok /\ Int32Inc(req_total) # 0

\* C2: the first successful write containing u increases uniqueUsers by
\* exactly 1, every later successful write with the same u leaves it unchanged.
C2_FirstWriteCountsOnce ==
    [][\A c \in Conns :
        (conn[c].pc = "L39" /\ conn'[c].pc # "L39" /\ WillSucceed(c)) =>
            IF conn[c].user_id \in okUsers
            THEN unique_count' = unique_count
            ELSE unique_count' = unique_count + 1]_vars

\* C3: a POST /event answered with 500 leaves totalRequests, sum and every
\* shard as they were.
C3_FailedWriteChangesNothing ==
    \A c \in Conns :
        (Chosen(c) /\ IsEvent(c) /\ conn[c].response.status = 500) => conn[c].dirty = {}

\* the write of handler c failed while its body was completed or decoded
DecodeFailed(c) ==
    \/ conn[c].readErr
    \/ ~SplitOK(conn[c].data_bin)
    \/ LET body == Loads(conn[c].body_sofar)
       IN  ~body.ok \/ ~body.dict \/ ~FloatOf(body.value).ok

\* C4: a write that fails during body completion or decode is answered with
\* 500 and changes neither totalRequests nor sum.
C4_FailedWriteKeepsCounters ==
    \A c \in Conns :
        (Chosen(c) /\ IsEvent(c) /\ DecodeFailed(c)) =>
            /\ conn[c].response = HTTP_500
            /\ conn[c].dirty \cap {"sum", "total"} = {}

\* a write fails after its user was added, with counters that are not zero
C4_Witness ==
    \E c \in Conns :
        /\ Chosen(c) /\ IsEvent(c) /\ DecodeFailed(c)
        /\ conn[c].response.status = 500
        /\ "shards" \in conn[c].dirty
        /\ req_total > 0 /\ req_sum > 0

\* C5: a first read with neither marker is answered 404 Not Found and
\* changes no aggregate.
C5_UnknownRoute404 ==
    \A c \in Conns :
        (conn[c].pc \in {"L102", "L103"} /\ ~conn[c].readErr /\ NoMarker(c)) =>
            /\ conn[c].response = HTTP_404
            /\ conn[c].dirty = {}

\* an unknown request line is answered while the aggregates are not empty
C5_Witness ==
    \E c \in Conns :
        /\ Chosen(c) /\ NoMarker(c) /\ Len(conn[c].data_bin) > 0
        /\ conn[c].response.status = 404
        /\ req_total > 0 /\ shards # {}

\* C6: after valid writes handled one after another, GET /stats reports
\* totalRequests = number of writes, uniqueUsers = number of distinct
\* userIds, sum = the sum of the values, and all zero without writes.
C6_StatsAfterWrites ==
    \A c \in Conns :
        (Chosen(c) /\ IsStats(c) /\ ~overlap /\ accepted = okWrites + 1) =>
            /\ conn[c].response.status = 200
            /\ conn[c].response.totalRequests = okWrites
            /\ conn[c].response.uniqueUsers = Cardinality(okUsers)
            /\ conn[c].response.sum = exactSum
            /\ (okWrites = 0 => conn[c].response.avg = Zero)

\* C7: in every 200 response avg = sum / totalRequests when totalRequests > 0
\* and 0.0 when totalRequests = 0.
C7_Average ==
    \A c \in Conns :
        (conn[c].pc \in {"L102", "L103"} /\ conn[c].response.status = 200) =>
            LET r == conn[c].response
            IN  /\ r.totalRequests > 0 => r.avg = Quot(r.sum, r.totalRequests)
                /\ r.totalRequests = 0 => r.avg = Zero

\* a 200 response whose average is not a whole number
C7_Witness ==
    \E c \in Conns :
        /\ Chosen(c) /\ conn[c].response.status = 200
        /\ conn[c].response.totalRequests >= 2
        /\ conn[c].response.avg[2] # 1

\* a request of the event shape with the Content-Length of its body
ValidEventReq(r) ==
    /\ SplitOK(r)
    /\ ContentLength(r) = Len(BodyOf(r))
    /\ LET body == Loads(BodyOf(r))
       IN  body.ok /\ body.dict /\ body.userId.k = "userId" /\ body.value.k \in {"none", "value"}

\* C8: a valid POST /event whose headers came in the first read and whose
\* body comes in later chunks is answered with 200.
C8_SplitDeliverySucceeds ==
    \A c \in Conns :
        (Chosen(c) /\ ~conn[c].readErr /\ SplitOK(conn[c].data_bin) /\ IsEvent(c)
            /\ ValidEventReq(conn[c].req)) =>
            conn[c].response.status = 200

\* C9: when the body is handed to the JSON decoder, it has the declared
\* length, or a read failed or returned end-of-stream.
C9_NoPartialDecode ==
    \A c \in Conns :
        conn[c].pc = "L79" =>
            \/ Len(conn[c].body_sofar) >= conn[c].content_length
            \/ conn[c].eof
            \/ conn[c].readErr

\* C10: a handler ends only after it wrote one response, flushed it and
\* closed the connection (the step from L105 is the one that closes).
C10_AlwaysWriteFlushClose ==
    [][\A c \in Conns :
        (Active(c) /\ conn'[c].pc = "idle") =>
            conn[c].written = 1 /\ conn[c].flushed /\ conn[c].pc = "L105"]_vars

\* the 200 response of handler c to its own POST /event
EventOK(c) == Chosen(c) /\ IsEvent(c) /\ conn[c].response.status = 200

\* C11: the 200 response to a successful POST /event reflects the handler's
\* own write: totalRequests is at least 1 and at least the value before the
\* write plus 1, uniqueUsers counts the userId of the request, and sum is
\* the sum before the write plus the value of the request.
C11_ResponseReflectsOwnWrite ==
    \A c \in Conns :
        EventOK(c) =>
            LET r == conn[c].response
            IN  /\ r.totalRequests >= 1
                /\ r.totalRequests >= conn[c].tmp + 1
                /\ <<conn[c].i, conn[c].user_id>> \in shards
                /\ r.uniqueUsers = unique_count
                /\ r.sum = conn[c].sum0 + FloatOf(conn[c].body.value).v

\* the part of C11 that does not depend on the width of req_sum
C11_CountAndUser ==
    \A c \in Conns :
        EventOK(c) =>
            LET r == conn[c].response
            IN  /\ r.totalRequests >= 1
                /\ r.totalRequests >= conn[c].tmp + 1
                /\ <<conn[c].i, conn[c].user_id>> \in shards
                /\ r.uniqueUsers = unique_count

\* the body handler c decoded is JSON but not an event: not an object, no
\* userId, a userId that is not a string, or a value that is not a number
NotEventShape(c) ==
    LET body == Loads(conn[c].body_sofar)
    IN  /\ body.ok
        /\ \/ ~body.dict
           \/ body.userId.k # "userId"
           \/ body.value.k \notin {"none", "value"}

\* C12: a POST /event whose body decodes as JSON but does not have the event
\* shape is answered with 500 and never with 200.
C12_WrongShapeIs500 ==
    \A c \in Conns :
        (Chosen(c) /\ IsEvent(c) /\ ~conn[c].readErr /\ SplitOK(conn[c].data_bin)
            /\ NotEventShape(c)) =>
            conn[c].response = HTTP_500

\* handler c is between acquiring and releasing the guard of its shard
InCS(c) == conn[c].pc = "L39"

\* any step of handler c
HandlerStep(c) ==
    \/ ReadFirst(c) \/ Classify(c) \/ Stats(c) \/ ParseEvent(c) \/ ReadRest(c)
    \/ Decode(c) \/ GetUser(c) \/ Acquire(c) \/ AddUser(c) \/ SumLoad(c)
    \/ SumStore(c) \/ TotalLoad(c) \/ TotalStore(c) \/ Respond(c) \/ Write(c)
    \/ Drain(c) \/ Close(c)

\* C13: per-shard mutual exclusion -- at most one handler is inside the
\* critical section of a given shard, while handlers on other shards are not
\* held back: a handler inside its critical section leaves every other open
\* handler able to run on towards its own shard.
C13_ShardsInParallel ==
    \A a \in Conns :
        InCS(a) =>
            /\ \A b \in Conns \ {a} : ~(InCS(b) /\ conn[b].i = conn[a].i)
            /\ \A b \in Conns \ {a} : Active(b) => ENABLED HandlerStep(b)

\* C13 amended: at most one handler is inside a critical section at all,
\* whatever the shards; the guard it holds is the only one held.
C13_OneInCriticalSection ==
    \A a \in Conns :
        InCS(a) =>
            /\ \A b \in Conns \ {a} : ~InCS(b)
            /\ locks = {conn[a].i}

\* a handler is inside its critical section while another connection is open
C13_Witness ==
    \E a \in Conns : \E b \in Conns \ {a} :
        InCS(a) /\ conn[b].pc = "L77" /\ shards # {}

\* the identifiers that add_unique_user has stored
Stored == {p[2] : p \in shards}

\* C14: each stored identifier is a member of exactly one shard, the shard
\* shard_index(u) with 0 <= shard_index(u) < NUM_SHARDS, the index being the
\* same whenever it is computed; so unique_count() is the number of distinct
\* identifiers added.
C14_ShardPlacement ==
    /\ \A p \in shards :
        /\ p[1] = shard_index(p[2])
        /\ 0 <= p[1] /\ p[1] < NUM_SHARDS
        /\ \A q \in shards : q[2] = p[2] => q[1] = p[1]
    /\ \A c \in Conns :
        conn[c].pc \in {"L38", "L39"} => conn[c].i = shard_index(conn[c].user_id)
    /\ unique_count = Cardinality(Stored)

\* two users in two shards, one of them under a negative hash, after a
\* repeated add of one of them
C14_Witness ==
    /\ Cardinality(shards) = 2
    /\ okWrites = 3
    /\ \E p \in shards : Hash(hashseed, p[2]) < 0 /\ p[1] = NUM_SHARDS - 3

\* C15: the guard is released on every exit path of add_unique_user: a
\* guard is held only by a handler inside the critical section (none by a
\* handler that finished or failed), every step out of the critical section
\* frees it, and a handler at the guard gets it in the end.
C15_GuardReleased ==
    /\ [](locks = {conn[c].i : c \in {d \in Conns : InCS(d)}})
    /\ [][\A c \in Conns :
            (InCS(c) /\ conn'[c].pc # "L39") => conn[c].i \notin locks']_vars
    /\ \A c \in Conns : (conn[c].pc = "L38") ~> InCS(c)

\* a handler that failed after its add (C3) and holds no guard, while
\* another handler has been through the same shard
C15_Witness ==
    \E c \in Conns :
        /\ Chosen(c) /\ conn[c].response.status = 500 /\ conn[c].user_id # NoUser
        /\ <<conn[c].i, conn[c].user_id>> \in shards
        /\ okWrites > 0 /\ conn[c].user_id \in okUsers
        /\ locks = {}

\* handler c has begun line 81 and not yet finished line 82
MidWrite(c) == conn[c].pc \in {"L81s", "L82", "L82s"}

\* C16: the (totalRequests, sum) pair of a stats or event response is the
\* pair the two counters hold together in the state in which the response
\* is built, and in that state no write is half applied (no event counted
\* in one of the counters and not in the other).
C16_SnapshotConsistent ==
    \A c \in Conns :
        (Chosen(c) /\ conn[c].response.status = 200) =>
            /\ conn[c].response.totalRequests = req_total
            /\ conn[c].response.sum = req_sum
            /\ \A d \in Conns : ~MidWrite(d)

\* a stats response built while a writer is open and waits for its body
C16_Witness ==
    \E c \in Conns : \E d \in Conns \ {c} :
        /\ Chosen(c) /\ IsStats(c) /\ conn[c].response.status = 200
        /\ conn[c].response.totalRequests >= 1 /\ conn[c].response.sum > 0
        /\ conn[d].pc = "L77"

\* the request line of what handler c read first
RequestLine(c) == conn[c].data_bin[1].s

\* C17: the route follows the request line -- a request whose request line
\* is POST /event goes the event route, and a request goes the stats route
\* only when its request line is GET /stats, whatever else the first read
\* holds.
C17_RouteByRequestLine ==
    [][\A c \in Conns :
        (conn[c].pc = "L55" /\ conn'[c].pc # "L55" /\ Len(conn[c].data_bin) > 0) =>
            /\ RequestLine(c) = POST_EVENT => conn'[c].pc = "L68"
            /\ conn'[c].pc = "L56" => RequestLine(c) = GET_STATS]_vars

\* C18: GET /stats is read-only -- no step of a handler whose first read
\* holds the stats marker changes totalRequests, sum or a shard, and none
\* takes a shard guard or brings the handler to add_unique_user.
C18_StatsReadOnly ==
    [][\A c \in Conns :
        (conn'[c] # conn[c] /\ (IsStats(c) \/ HasMarker(conn'[c].data_bin, GET_STATS))) =>
            /\ UNCHANGED <<req_total, req_sum, shards, locks>>
            /\ conn'[c].pc \notin {"L38", "L39", "L81", "L81s", "L82", "L82s", "L84"}
            /\ conn'[c].dirty = {}]_vars

\* a stats response over aggregates that are not empty, no guard held
C18_Witness ==
    \E c \in Conns :
        /\ Chosen(c) /\ IsStats(c) /\ conn[c].response.status = 200
        /\ conn[c].response.uniqueUsers = 2 /\ req_total = 2 /\ locks = {}

\* handler c has added its user and not yet counted its event
BetweenAddAndRecord(c) == conn[c].pc \in {"L81", "L81s", "L82", "L82s"}

\* C19: in every state in which no handler is between the add of its user
\* and the recording of its event, uniqueUsers <= totalRequests.
C19_UsersAtMostRequests ==
    (\A c \in Conns : ~BetweenAddAndRecord(c)) => unique_count <= req_total

\* C20: totalRequests is a count that does not wrap -- never negative,
\* never decreasing, and each write that is applied increases it by
\* exactly 1.  (The comparison with INT_MAX only keeps req_total + 1 an
\* integer that can be written down; the steps at INT_MAX are judged by the
\* two conjuncts before it.)
C20_CountsWithoutWrap ==
    [][\A c \in Conns :
        (conn[c].pc = "L82s" /\ conn'[c].pc # "L82s") =>
            /\ req_total' >= 0
            /\ req_total' > req_total
            /\ req_total < INT_MAX => req_total' = req_total + 1]_vars

====
